---------------------------- MODULE Spec2Model ----------------------------
(***************************************************************************)
(* A model of the DIMSE client (src/src/Client.js): the request queue, the *)
(* additional presentation contexts, send() with the association it builds *)
(* and the handlers it registers on the Network object, together with the  *)
(* Network / Association collaborators the client drives.                  *)
(***************************************************************************)
EXTENDS Integers, Sequences, FiniteSets, TLC

VARIABLES
  requests,                        \* this.requests
  additionalPresentationContexts,  \* this.additionalPresentationContexts
  associationLingerTimeout,        \* this.associationLingerTimeout
  thrown,                          \* the error the last call threw, if it threw
  returned,                        \* the value the last call returned
  conns,                           \* one record per connection opened by send
  assoc,                           \* an Association object its caller drives directly
  assocCalls,                      \* the number of calls made on it
  fed                              \* the requests fed to it, each with the id returned

vars == <<requests, additionalPresentationContexts, associationLingerTimeout,
          thrown, returned, conns, assoc, assocCalls, fed>>

callVars   == <<thrown, returned>>

assocVars  == <<assoc, assocCalls, fed>>
clientVars == <<requests, additionalPresentationContexts, associationLingerTimeout, conns>>

-----------------------------------------------------------------------------
(* Bounds *)

NumRequests == 2    \* Request objects the caller holds
NumContexts == 2    \* PresentationContext objects the caller holds
MaxConns    == 1    \* successful send calls (connections) per behaviour
MaxLinger   == 1    \* largest associationLingerTimeout option value
MaxAssocCalls == 4  \* calls made on the directly driven Association

-----------------------------------------------------------------------------
(* Objects the caller can pass to the client.  An object is <<class, n>>.  *)

RequestObjects == {<<"Request", i>> : i \in 1..NumRequests}
ContextObjects == {<<"PresentationContext", i>> : i \in 1..NumContexts}
OtherObjects   == {<<"Object", 0>>}
Objects        == RequestObjects \cup ContextObjects \cup OtherObjects

IsRequest(o)             == o[1] = "Request"
IsPresentationContext(o) == o[1] = "PresentationContext"

Undefined == -1
None == << >>
LingerOptions == {Undefined} \cup (0..MaxLinger)

ImplicitVRLittleEndian == "1.2.840.10008.1.2"
ExplicitVRLittleEndian == "1.2.840.10008.1.2.1"
Jpeg2000Lossless       == "1.2.840.10008.1.2.4.90"
JpegLossless           == "1.2.840.10008.1.2.4.70"

Verification   == "1.2.840.10008.1.1"
CtImageStorage == "1.2.840.10008.5.1.4.1.1.2"
MrImageStorage == "1.2.840.10008.5.1.4.1.1.4"
StudyRootGet   == "1.2.840.10008.5.1.4.1.2.2.3"

(* The storage classes of the registry, in registry order. *)
StorageClasses == <<CtImageStorage, MrImageStorage>>

(* What each Request object the caller holds is. *)
RequestDescriptors ==
  << [kind |-> "CEcho",  sop |-> Verification,   ts |-> ImplicitVRLittleEndian],
     [kind |-> "CStore", sop |-> CtImageStorage, ts |-> ImplicitVRLittleEndian],
     [kind |-> "CStore", sop |-> CtImageStorage, ts |-> Jpeg2000Lossless],
     [kind |-> "CGet",   sop |-> StudyRootGet,   ts |-> ImplicitVRLittleEndian] >>

Descriptor(o) == RequestDescriptors[((o[2] - 1) % Len(RequestDescriptors)) + 1]

(* What each PresentationContext object the caller holds is. *)
ContextDescriptors ==
  << [abstractSyntaxUid |-> CtImageStorage, transferSyntaxUids |-> <<Jpeg2000Lossless>>],
     [abstractSyntaxUid |-> CtImageStorage, transferSyntaxUids |-> <<ExplicitVRLittleEndian, JpegLossless>>],
     [abstractSyntaxUid |-> MrImageStorage, transferSyntaxUids |-> <<ImplicitVRLittleEndian>>] >>

ContextDescriptor(o) == ContextDescriptors[((o[2] - 1) % Len(ContextDescriptors)) + 1]

getAbstractSyntaxUid(o)  == ContextDescriptor(o).abstractSyntaxUid
getTransferSyntaxUids(o) == ContextDescriptor(o).transferSyntaxUids

-----------------------------------------------------------------------------
(* Sequence helpers *)

Includes(s, x) == \E i \in 1..Len(s) : s[i] = x

NoDuplicates(s) == \A i, j \in 1..Len(s) : s[i] = s[j] => i = j

IsPrefix(s, t) == Len(s) <= Len(t) /\ SubSeq(t, 1, Len(s)) = s

-----------------------------------------------------------------------------
(* Association and PresentationContext.  Their code is not part of the     *)
(* sources at hand (Client.js requires './Association'); they are modelled *)
(* from their specification, sections 3, 4.1 and 4.2.  An association is   *)
(* the ordered sequence of its presentation contexts.                      *)

Pending  == "Pending"
Accepted == "Accepted"
Results  == {Accepted, "UserRejected", "TransferSyntaxesNotSupported"}
NoAccepted == "none"

NotFoundError     == "NotFoundError"
InvalidStateError == "InvalidStateError"

NewAssociation == << >>

NewPresentationContext(id, abstractSyntaxUid) ==
  [id |-> id, abstractSyntaxUid |-> abstractSyntaxUid, transferSyntaxUids |-> << >>,
   result |-> Pending, acceptedTransferSyntaxUid |-> NoAccepted]

(* A mutant: ids numbered 1, 2, 3, ... *)
NextPresentationContextId_Sequential(a) == Len(a) + 1

(* The next odd id: 1, 3, 5, ... in allocation order. *)
NextPresentationContextId(a) == 2 * Len(a) + 1

(* addPresentationContext(abstractSyntaxUid): always a new context. *)
addPresentationContext(a, abstractSyntaxUid) ==
  Append(a, NewPresentationContext(NextPresentationContextId(a), abstractSyntaxUid))

(* The position of the first context with that abstract syntax, 0 if none. *)
FindAbstractSyntax(a, abstractSyntaxUid) ==
  LET hits == {i \in 1..Len(a) : a[i].abstractSyntaxUid = abstractSyntaxUid}
  IN  IF hits = {} THEN 0 ELSE CHOOSE i \in hits : \A j \in hits : i <= j

(* addOrGetPresentationContext(abstractSyntaxUid): the association after the call ... *)
addOrGetPresentationContext(a, abstractSyntaxUid) ==
  IF FindAbstractSyntax(a, abstractSyntaxUid) = 0
  THEN addPresentationContext(a, abstractSyntaxUid)
  ELSE a

(* ... and the id it returns. *)
addOrGetPresentationContextId(a, abstractSyntaxUid) ==
  LET b == addOrGetPresentationContext(a, abstractSyntaxUid)
  IN  b[FindAbstractSyntax(b, abstractSyntaxUid)].id

(* The position of the context with that id, 0 if none. *)
FindId(a, id) ==
  LET hits == {i \in 1..Len(a) : a[i].id = id}
  IN  IF hits = {} THEN 0 ELSE CHOOSE i \in hits : \A j \in hits : i <= j

(* A mutant: the first context, whatever the id. *)
getPresentationContext_First(a, id) == a[1]

(* getPresentationContext(id): the context with that id; the caller has    *)
(* checked that there is one (it throws otherwise).                        *)
getPresentationContext(a, id) == a[FindId(a, id)]

(* PresentationContext.getAcceptedTransferSyntaxUid.  Before any setResult *)
(* the tests read the transfer syntax that was proposed: '9.8.7.6.5.4.3.2.1'*)
(* after addTransferSyntaxToPresentationContext, ImplicitVRLittleEndian    *)
(* after addPresentationContextFromRequest.                                *)
getAcceptedTransferSyntaxUid(context) ==
  IF context.result = Accepted THEN context.acceptedTransferSyntaxUid
  ELSE IF context.result = Pending /\ context.transferSyntaxUids # << >>
       THEN context.transferSyntaxUids[1]
       ELSE NoAccepted

(* PresentationContext.setResult on a Pending context (it throws on any    *)
(* other): the result, and the accepted transfer syntax when accepted.     *)
setResult(context, result, acceptedTransferSyntaxUid) ==
  [context EXCEPT !.result = result,
                  !.acceptedTransferSyntaxUid =
                     IF result = Accepted THEN acceptedTransferSyntaxUid ELSE NoAccepted]

(* PresentationContext.addTransferSyntax: appends if not already present;  *)
(* once a result is set it fails and the proposals stay as they are.       *)
addTransferSyntax(context, transferSyntaxUid) ==
  IF context.result # Pending \/ Includes(context.transferSyntaxUids, transferSyntaxUid)
  THEN context
  ELSE [context EXCEPT !.transferSyntaxUids = Append(@, transferSyntaxUid)]

(* addTransferSyntaxToPresentationContext(pcId, transferSyntaxUid) *)
addTransferSyntaxToPresentationContext(a, pcId, transferSyntaxUid) ==
  LET i == FindId(a, pcId)
  IN  IF i = 0 THEN a
      ELSE [a EXCEPT ![i] = addTransferSyntax(@, transferSyntaxUid)]

(* Step 1 of addPresentationContextFromRequest: the (abstract syntax,      *)
(* transfer syntax) pairs a request implies; the request's own pair last   *)
(* for a retrieve, after one pair per storage class in registry order.     *)
(* A mutant: a retrieve implies its own pair only. *)
ImpliedPairs_OwnOnly(d) == << <<d.sop, d.ts>> >>

ImpliedPairs(d) ==
  IF d.kind = "CGet"
  THEN [i \in 1..Len(StorageClasses) |-> <<StorageClasses[i], d.ts>>] \o << <<d.sop, d.ts>> >>
  ELSE << <<d.sop, d.ts>> >>

(* The position of the first context with that abstract syntax that       *)
(* proposes that transfer syntax, 0 if none.                               *)
FindAbstractSyntaxAndTransferSyntax(a, abstractSyntaxUid, transferSyntaxUid) ==
  LET hits == {i \in 1..Len(a) : /\ a[i].abstractSyntaxUid = abstractSyntaxUid
                                 /\ Includes(a[i].transferSyntaxUids, transferSyntaxUid)}
  IN  IF hits = {} THEN 0 ELSE CHOOSE i \in hits : \A j \in hits : i <= j

(* Step 2 as the specification words it: reuse the context with that      *)
(* abstract syntax (and append the transfer syntax when it does not        *)
(* propose it yet), or allocate a new context seeded with the transfer     *)
(* syntax.                                                                 *)
MergePair(a, pair) ==
  LET b == addOrGetPresentationContext(a, pair[1])
  IN  addTransferSyntaxToPresentationContext(
        b, addOrGetPresentationContextId(a, pair[1]), pair[2])

(* A new context for the pair, seeded with its transfer syntax. *)
NewPair(a, pair) ==
  addTransferSyntaxToPresentationContext(
    addPresentationContext(a, pair[1]), NextPresentationContextId(a), pair[2])

(* A mutant: every pair merged by abstract syntax alone. *)
AddPair_ByAbstractSyntax(a, pair, kind) == MergePair(a, pair)

(* A mutant: a C-STORE request always gets a new context. *)
AddPair_AlwaysNew(a, pair, kind) ==
  IF kind = "CStore" THEN NewPair(a, pair) ELSE MergePair(a, pair)

(* Step 2 for one pair.  The pair of a C-STORE request reuses a context    *)
(* only when it has the abstract syntax and already proposes the dataset's *)
(* transfer syntax, and gets a new context otherwise: the C-STORE test     *)
(* expects 3 contexts and ids pcId3 # pcId4 = pcId5 # pcId6 for one SOP    *)
(* class with transfer syntaxes default, .4.90, .4.90, .4.70.  The pairs   *)
(* of the other requests follow the specification.                         *)
AddPair(a, pair, kind) ==
  IF kind = "CStore"
  THEN IF FindAbstractSyntaxAndTransferSyntax(a, pair[1], pair[2]) # 0
       THEN a
       ELSE NewPair(a, pair)
  ELSE MergePair(a, pair)

RECURSIVE AddPairs(_, _, _)
AddPairs(a, pairs, kind) ==
  IF pairs = << >> THEN a
  ELSE AddPairs(AddPair(a, Head(pairs), kind), Tail(pairs), kind)

(* addPresentationContextFromRequest(request): the association after it ... *)
addPresentationContextFromRequest(a, d) == AddPairs(a, ImpliedPairs(d), d.kind)

(* ... and the id it returns: that of the context of the request's own pair. *)
addPresentationContextFromRequestId(a, d) ==
  LET b == addPresentationContextFromRequest(a, d)
  IN  IF d.kind = "CStore"
      THEN b[FindAbstractSyntaxAndTransferSyntax(b, d.sop, d.ts)].id
      ELSE b[FindAbstractSyntax(b, d.sop)].id

-----------------------------------------------------------------------------
(* Client: constructor, addRequest, clearRequests,                         *)
(* addAdditionalPresentationContext.                                       *)

NoError == "none"
NoRequestsError == "There are no requests to perform."

NotARequestError == "is not a request."
NotAContextError == "is not a presentation context."

(* A call returns a value (undefined for the client's methods) or throws. *)
Returns(value) == thrown' = NoError /\ returned' = value
Throws(error)  == thrown' = error /\ returned' = Undefined

(* A mutant: addRequest without its duplicate check. *)
AddRequestQueue_NoDedup(queue, request) == Append(queue, request)

(* The queue after addRequest(request) returns normally. *)
AddRequestQueue(queue, request) ==
  IF Includes(queue, request) THEN queue ELSE Append(queue, request)

addRequest(request) ==
  /\ IF ~IsRequest(request)
     THEN /\ Throws(NotARequestError)
          /\ UNCHANGED requests
     ELSE /\ Returns(Undefined)
          /\ requests' = AddRequestQueue(requests, request)
  /\ UNCHANGED <<additionalPresentationContexts, associationLingerTimeout, conns, assocVars>>

clearRequests ==
  /\ requests' = << >>
  /\ Returns(Undefined)
  /\ UNCHANGED <<additionalPresentationContexts, associationLingerTimeout, conns, assocVars>>

(* The list after addAdditionalPresentationContext(context) returns normally. *)
AddContextList(list, context) ==
  IF Includes(list, context) THEN list ELSE Append(list, context)

addAdditionalPresentationContext(context) ==
  /\ IF ~IsPresentationContext(context)
     THEN /\ Throws(NotAContextError)
          /\ UNCHANGED additionalPresentationContexts
     ELSE /\ Returns(Undefined)
          /\ additionalPresentationContexts' =
               AddContextList(additionalPresentationContexts, context)
  /\ UNCHANGED <<requests, associationLingerTimeout, conns, assocVars>>

-----------------------------------------------------------------------------
(* Client.send: the association it builds.                                 *)

RECURSIVE AddContextsFromRequests(_, _)
AddContextsFromRequests(a, queue) ==
  IF queue = << >> THEN a
  ELSE AddContextsFromRequests(
         addPresentationContextFromRequest(a, Descriptor(Head(queue))), Tail(queue))

RECURSIVE AddTransferSyntaxes(_, _, _)
AddTransferSyntaxes(a, pcId, transferSyntaxes) ==
  IF transferSyntaxes = << >> THEN a
  ELSE AddTransferSyntaxes(
         addTransferSyntaxToPresentationContext(a, pcId, Head(transferSyntaxes)),
         pcId, Tail(transferSyntaxes))

(* A mutant: addPresentationContext in place of addOrGetPresentationContext. *)
AddAdditionalContext_AlwaysNew(a, context) ==
  AddTransferSyntaxes(
    addPresentationContext(a, getAbstractSyntaxUid(context)),
    NextPresentationContextId(a),
    getTransferSyntaxUids(context))

(* One additional context: addOrGetPresentationContext on its abstract     *)
(* syntax, then each of its transfer syntaxes onto the context returned.   *)
AddAdditionalContext(a, context) ==
  AddTransferSyntaxes(
    addOrGetPresentationContext(a, getAbstractSyntaxUid(context)),
    addOrGetPresentationContextId(a, getAbstractSyntaxUid(context)),
    getTransferSyntaxUids(context))

RECURSIVE AddAdditionalContexts(_, _)
AddAdditionalContexts(a, contexts) ==
  IF contexts = << >> THEN a
  ELSE AddAdditionalContexts(AddAdditionalContext(a, Head(contexts)), Tail(contexts))

BuildAssociation(queue, contexts) ==
  AddAdditionalContexts(AddContextsFromRequests(NewAssociation, queue), contexts)

(* opts.associationLingerTimeout || 0 *)
LingerOf(option) == IF option = Undefined THEN 0 ELSE option

-----------------------------------------------------------------------------
(* A connection: the socket and the Network object send creates, with a    *)
(* log of what the client emitted to its caller (<<"emit", ...>>) and of   *)
(* what went to the network (<<"net", ...>>).  queueAtSend keeps the       *)
(* request queue as send read it when it built the association.            *)

NewConnection(association, option, queue) ==
  [ lifecycle    |-> "Connecting",
    socket       |-> "connecting",
    ends         |-> 0,
    fault        |-> "none",
    opts         |-> option,
    association  |-> association,
    queueAtSend  |-> queue,
    pending      |-> << >>,
    outstanding  |-> None,
    lingerTimers |-> << >>,
    log          |-> << >> ]

Log(k, entry) == [k EXCEPT !.log = Append(@, entry)]

(* this.emit(name, ...args) *)
Emit(k, event) == Log(k, <<"emit">> \o event)

(* socket.end() *)
SocketEnd(k) ==
  Log([k EXCEPT !.ends = @ + 1,
                !.socket = IF @ = "closed" THEN "closed" ELSE "ended"],
      <<"net", "socket.end">>)

(* setTimeout(() => network.sendAssociationReleaseRequest(), delay) *)
SetLingerTimeout(k, delay) == [k EXCEPT !.lingerTimers = Append(@, delay)]

-----------------------------------------------------------------------------
(* The handlers send registers on the Network object, and the Network      *)
(* methods they call.  Network.js is not part of the sources at hand: its  *)
(* methods and the events it emits are modelled from section 4.3.          *)

(* network.on('done'): arms the linger timer with the client's current     *)
(* associationLingerTimeout.                                               *)
OnDone(k) == SetLingerTimeout(k, associationLingerTimeout)

(* Network: all requests handed over are done. *)
EmitDone(k) == OnDone(Log(k, <<"net", "done">>))

(* network.sendAssociationRequest(association) *)
NetSendAssociationRequest(k, association) == Log(k, <<"net", "A-ASSOCIATE-RQ">>)

(* network.sendRequests(requests): queues a copy of the list; with nothing *)
(* to send, everything is done at once.                                    *)
NetSendRequests(k, queue) ==
  LET q == [Log(k, <<"net", "sendRequests", queue>>) EXCEPT !.pending = @ \o queue]
  IN  IF q.pending = << >> /\ q.outstanding = None THEN EmitDone(q) ELSE q

(* network.sendAssociationReleaseRequest(): Established -> Releasing; the  *)
(* log keeps the state it was called in.                                   *)
NetSendAssociationReleaseRequest(k) ==
  Log([k EXCEPT !.lifecycle = IF @ = "Established" THEN "Releasing" ELSE @],
      <<"net", "A-RELEASE-RQ", k.lifecycle>>)

(* A mutant: the requests handed over as soon as the transport connects. *)
OnConnect_SendsRequests(k) ==
  NetSendRequests(NetSendAssociationRequest(Emit(k, <<"connected">>), k.association), requests)

(* network.on('connect') *)
OnConnect(k) == NetSendAssociationRequest(Emit(k, <<"connected">>), k.association)

(* A mutant: the linger timer armed on acceptance, not on done. *)
OnAssociationAccepted_ReleaseEarly(k) ==
  SetLingerTimeout(NetSendRequests(Emit(k, <<"associationAccepted">>), requests),
                   associationLingerTimeout)

(* network.on('associationAccepted') *)
OnAssociationAccepted(k) == NetSendRequests(Emit(k, <<"associationAccepted">>), requests)

(* A mutant: the release response ends the socket without telling the caller. *)
OnAssociationReleaseResponse_Silent(k) == SocketEnd(k)

(* network.on('associationReleaseResponse') *)
OnAssociationReleaseResponse(k) == SocketEnd(Emit(k, <<"associationReleased">>))

(* A mutant: the rejection reported without ending the socket. *)
OnAssociationRejected_NoEnd(k, result, source, reason) ==
  Emit(k, <<"associationRejected", result, source, reason>>)

(* A mutant: source and reason swapped. *)
OnAssociationRejected_Swapped(k, result, source, reason) ==
  SocketEnd(Emit(k, <<"associationRejected", result, reason, source>>))

(* network.on('associationRejected') *)
OnAssociationRejected(k, result, source, reason) ==
  SocketEnd(Emit(k, <<"associationRejected", result, source, reason>>))

(* Mutants: the error reported without ending the socket; the socket     *)
(* ended without reporting the error.                                    *)
OnNetworkError_NoEnd(k, err) == Emit(k, <<"networkError", err>>)
OnNetworkError_NoEmit(k, err) == SocketEnd(k)

(* network.on('networkError') *)
OnNetworkError(k, err) == Emit(SocketEnd(k), <<"networkError", err>>)

(* network.on('close') *)
OnClose(k) == Emit(k, <<"closed">>)

(* The linger timer's callback. *)
OnLingerTimeout(k) == NetSendAssociationReleaseRequest(k)

-----------------------------------------------------------------------------
(* Client.send *)

(* A mutant: send without its check for an empty queue. *)
send_NoCheck(option) ==
  /\ associationLingerTimeout' = LingerOf(option)
  /\ Len(conns) < MaxConns
  /\ Returns(Undefined)
  /\ conns' = Append(conns,
       NewConnection(BuildAssociation(requests, additionalPresentationContexts), option,
                     requests))
  /\ UNCHANGED <<requests, additionalPresentationContexts, assocVars>>

send(option) ==
  /\ associationLingerTimeout' = LingerOf(option)
  /\ IF requests = << >>
     THEN /\ Throws(NoRequestsError)
          /\ UNCHANGED conns
     ELSE /\ Len(conns) < MaxConns
          /\ Returns(Undefined)
          /\ conns' = Append(conns,
               NewConnection(BuildAssociation(requests, additionalPresentationContexts),
                             option, requests))
  /\ UNCHANGED <<requests, additionalPresentationContexts, assocVars>>

-----------------------------------------------------------------------------
(* The network side of a connection (section 4.3): what the transport, the *)
(* peer and the timers do, each step running the handler of the event the  *)
(* Network object emits.                                                   *)

Conns == 1..Len(conns)

Update(c, k) ==
  /\ conns' = [conns EXCEPT ![c] = k]
  /\ UNCHANGED <<requests, additionalPresentationContexts, associationLingerTimeout,
                 callVars, assocVars>>

Rejections == {<<1, 1, 1>>, <<2, 3, 2>>}

FaultsIn(lifecycle) ==
  CASE lifecycle = "Connecting"  -> {"connectTimeout", "transportError"}
    [] lifecycle = "Associating" -> {"associationTimeout", "transportError",
                                     "protocolError", "peerClose"}
    [] lifecycle \in {"Established", "Releasing"}
                                 -> {"pduTimeout", "transportError",
                                     "protocolError", "peerClose"}
    [] OTHER                     -> {}

(* Connecting --transportConnected--> Associating *)
TransportConnected(c) ==
  /\ conns[c].lifecycle = "Connecting"
  /\ Update(c, OnConnect([conns[c] EXCEPT !.lifecycle = "Associating", !.socket = "open"]))

(* Associating --associationAccepted--> Established *)
AssociationAccepted(c) ==
  /\ conns[c].lifecycle = "Associating"
  /\ Update(c, OnAssociationAccepted([conns[c] EXCEPT !.lifecycle = "Established"]))

(* Associating --associationRejected(result, source, reason)--> Closed *)
AssociationRejected(c, rj) ==
  /\ conns[c].lifecycle = "Associating"
  /\ Update(c, OnAssociationRejected(
                  Log([conns[c] EXCEPT !.lifecycle = "Closed"], <<"net", "A-ASSOCIATE-RJ", rj>>),
                  rj[1], rj[2], rj[3]))

(* Outbound: the next queued request goes out when none is outstanding. *)
SendNextRequest(c) ==
  /\ conns[c].lifecycle \notin {"Closed", "Error"}
  /\ conns[c].pending # << >>
  /\ conns[c].outstanding = None
  /\ Update(c, Log([conns[c] EXCEPT !.outstanding = <<Head(conns[c].pending)>>,
                                    !.pending = Tail(@)],
                   <<"net", "request", Head(conns[c].pending)>>))

(* The final response of the outstanding request is matched. *)
FinalResponse(c) ==
  /\ conns[c].lifecycle \notin {"Closed", "Error"}
  /\ conns[c].outstanding # None
  /\ LET k == Log([conns[c] EXCEPT !.outstanding = None],
                  <<"net", "response", conns[c].outstanding[1]>>)
     IN  Update(c, IF k.pending = << >> THEN EmitDone(k) ELSE k)

(* The linger timer expires: nothing cancels it. *)
LingerTimeout(c) ==
  /\ conns[c].lingerTimers # << >>
  /\ Update(c, OnLingerTimeout([conns[c] EXCEPT !.lingerTimers = Tail(@)]))

(* Releasing --releaseResponseReceived--> Closed *)
AssociationReleaseResponse(c) ==
  /\ conns[c].lifecycle = "Releasing"
  /\ Update(c, OnAssociationReleaseResponse([conns[c] EXCEPT !.lifecycle = "Closed"]))

(* A timeout, a protocol error, a transport error or the peer closing the  *)
(* transport, in any state before Closed: one networkError.                *)
Fault(c, err) ==
  /\ err \in FaultsIn(conns[c].lifecycle)
  /\ Update(c, OnNetworkError([conns[c] EXCEPT !.lifecycle = "Error", !.fault = err], err))

(* The transport closes: after this side ended it, or by itself when the   *)
(* fault was the transport's.                                              *)
TransportClosed(c) ==
  /\ conns[c].lifecycle \in {"Closed", "Error"}
  /\ conns[c].socket # "closed"
  /\ conns[c].socket = "ended" \/ conns[c].fault \in {"transportError", "peerClose"}
  /\ Update(c, OnClose([conns[c] EXCEPT !.socket = "closed"]))

-----------------------------------------------------------------------------
(* The client with its connections. *)

Init ==
  /\ requests = << >>
  /\ additionalPresentationContexts = << >>
  /\ associationLingerTimeout = 0
  /\ thrown = NoError
  /\ returned = Undefined
  /\ conns = << >>
  /\ assoc = NewAssociation
  /\ assocCalls = 0
  /\ fed = {}

Next ==
  \/ \E o \in Objects : addRequest(o)
  \/ clearRequests
  \/ \E option \in LingerOptions : send(option)
  \/ \E c \in Conns : TransportConnected(c)
  \/ \E c \in Conns : AssociationAccepted(c)
  \/ \E c \in Conns, rj \in Rejections : AssociationRejected(c, rj)
  \/ \E c \in Conns : SendNextRequest(c)
  \/ \E c \in Conns : FinalResponse(c)
  \/ \E c \in Conns : LingerTimeout(c)
  \/ \E c \in Conns : AssociationReleaseResponse(c)
  \/ \E c \in Conns : \E err \in FaultsIn(conns[c].lifecycle) : Fault(c, err)
  \/ \E c \in Conns : TransportClosed(c)

Spec == Init /\ [][Next]_vars

(* One connection attempt: the state right after a send that returned, for *)
(* every queue send accepts and every linger option, then the caller's     *)
(* queue calls and the network's events in any order.                      *)
Queues ==
  {q \in UNION {[1..n -> RequestObjects] : n \in 0..NumRequests} : NoDuplicates(q)}

InitConn ==
  \E q \in Queues \ {<< >>}, option \in LingerOptions :
    /\ requests = q
    /\ additionalPresentationContexts = << >>
    /\ associationLingerTimeout = LingerOf(option)
    /\ thrown = NoError
    /\ returned = Undefined
    /\ conns = <<NewConnection(BuildAssociation(q, << >>), option, q)>>
    /\ assoc = NewAssociation
    /\ assocCalls = 0
    /\ fed = {}

TheConn == 1

NextConn ==
  \/ \E request \in RequestObjects : addRequest(request)
  \/ clearRequests
  \/ TransportConnected(TheConn)
  \/ AssociationAccepted(TheConn)
  \/ \E rj \in Rejections : AssociationRejected(TheConn, rj)
  \/ SendNextRequest(TheConn)
  \/ FinalResponse(TheConn)
  \/ LingerTimeout(TheConn)
  \/ AssociationReleaseResponse(TheConn)
  \/ \E err \in FaultsIn(conns[TheConn].lifecycle) : Fault(TheConn, err)
  \/ TransportClosed(TheConn)

SpecConn == InitConn /\ [][NextConn]_vars

(* The transport does close: once this side has ended the socket, or after *)
(* a fault of the transport itself, the close event is delivered.          *)
FairSpecConn == SpecConn /\ WF_vars(TransportClosed(TheConn))

(* The same with the timers of the connection: the connect, association    *)
(* and PDU-inactivity timers expire when nothing else ends the wait, and   *)
(* an armed linger timer fires.                                            *)
Timeouts == {"connectTimeout", "associationTimeout", "pduTimeout"}

FairSpecTimers ==
  /\ SpecConn
  /\ WF_vars(TransportClosed(TheConn))
  /\ WF_vars(LingerTimeout(TheConn))
  /\ WF_vars(\E err \in Timeouts : Fault(TheConn, err))

(* The client's calls alone, no connection making progress. *)
NextApi ==
  \/ \E o \in Objects : addRequest(o)
  \/ clearRequests
  \/ \E o \in Objects : addAdditionalPresentationContext(o)
  \/ \E option \in LingerOptions : send(option)

SpecApi == Init /\ [][NextApi]_vars

-----------------------------------------------------------------------------
(* An Association driven directly by its caller, as the Association tests  *)
(* do: new Association(...), then calls in any order.                      *)

AbstractSyntaxUids == {Verification, CtImageStorage, MrImageStorage, StudyRootGet}
TransferSyntaxUids == {ImplicitVRLittleEndian, ExplicitVRLittleEndian,
                       Jpeg2000Lossless, JpegLossless}
RequestKinds == {RequestDescriptors[i] : i \in 1..Len(RequestDescriptors)}
                  \cup {[kind |-> "CStore", sop |-> MrImageStorage, ts |-> ImplicitVRLittleEndian],
                        [kind |-> "CStore", sop |-> CtImageStorage, ts |-> JpegLossless]}

AssocCall(a, value) ==
  /\ assocCalls < MaxAssocCalls
  /\ assocCalls' = assocCalls + 1
  /\ assoc' = a
  /\ Returns(value)
  /\ UNCHANGED clientVars

AssocAddPresentationContext(uid) ==
  /\ AssocCall(addPresentationContext(assoc, uid),
               addPresentationContext(assoc, uid)[Len(assoc) + 1].id)
  /\ UNCHANGED fed

AssocAddOrGetPresentationContext(uid) ==
  /\ AssocCall(addOrGetPresentationContext(assoc, uid),
               addOrGetPresentationContextId(assoc, uid))
  /\ UNCHANGED fed

AssocAddPresentationContextFromRequest(d) ==
  /\ AssocCall(addPresentationContextFromRequest(assoc, d),
               addPresentationContextFromRequestId(assoc, d))
  /\ fed' = fed \cup {[request |-> d, id |-> addPresentationContextFromRequestId(assoc, d)]}

AssocAddTransferSyntax(pcId, uid) ==
  /\ FindId(assoc, pcId) # 0
  /\ assocCalls < MaxAssocCalls
  /\ assocCalls' = assocCalls + 1
  /\ assoc' = addTransferSyntaxToPresentationContext(assoc, pcId, uid)
  /\ IF assoc[FindId(assoc, pcId)].result # Pending
     THEN Throws(InvalidStateError)
     ELSE Returns(Undefined)
  /\ UNCHANGED <<fed, clientVars>>

PresentationContextIds == 1..(2 * MaxAssocCalls + 1)

(* getPresentationContext(id): reads, throws when there is no such context. *)
AssocGetPresentationContext(id) ==
  /\ assocCalls < MaxAssocCalls
  /\ assocCalls' = assocCalls + 1
  /\ IF FindId(assoc, id) = 0
     THEN Throws(NotFoundError)
     ELSE Returns(getPresentationContext(assoc, id).id)
  /\ UNCHANGED <<assoc, fed, clientVars>>

(* getPresentationContext(id).setResult(result, acceptedTransferSyntaxUid) *)
AssocSetResult(id, result, uid) ==
  /\ FindId(assoc, id) # 0
  /\ assocCalls < MaxAssocCalls
  /\ assocCalls' = assocCalls + 1
  /\ IF assoc[FindId(assoc, id)].result # Pending
     THEN Throws(InvalidStateError) /\ UNCHANGED assoc
     ELSE /\ Returns(Undefined)
          /\ assoc' = [assoc EXCEPT ![FindId(assoc, id)] = setResult(@, result, uid)]
  /\ UNCHANGED <<fed, clientVars>>

NextAssoc ==
  \/ \E uid \in AbstractSyntaxUids : AssocAddPresentationContext(uid)
  \/ \E uid \in AbstractSyntaxUids : AssocAddOrGetPresentationContext(uid)
  \/ \E d \in RequestKinds : AssocAddPresentationContextFromRequest(d)
  \/ \E i \in 1..Len(assoc), uid \in TransferSyntaxUids :
        AssocAddTransferSyntax(assoc[i].id, uid)

SpecAssoc == Init /\ [][NextAssoc]_vars

(* The same, with the contexts read and their results set. *)
NextContexts ==
  \/ \E uid \in {Verification, CtImageStorage} : AssocAddPresentationContext(uid)
  \/ \E d \in {RequestDescriptors[1], RequestDescriptors[2]} :
        AssocAddPresentationContextFromRequest(d)
  \/ \E i \in 1..Len(assoc), uid \in TransferSyntaxUids :
        AssocAddTransferSyntax(assoc[i].id, uid)
  \/ \E id \in PresentationContextIds : AssocGetPresentationContext(id)
  \/ \E i \in 1..Len(assoc), result \in Results, uid \in TransferSyntaxUids :
        AssocSetResult(assoc[i].id, result, uid)

SpecContexts == Init /\ [][NextContexts]_vars

(* An Association fed C-STORE requests only, as in the C-STORE test. *)
StoreRequests ==
  {[kind |-> "CStore", sop |-> sop, ts |-> ts] :
     sop \in {CtImageStorage, MrImageStorage}, ts \in TransferSyntaxUids}

NextStore == \E d \in StoreRequests : AssocAddPresentationContextFromRequest(d)

SpecStore == Init /\ [][NextStore]_vars

-----------------------------------------------------------------------------
(* Reading a connection's log. *)

Emitted(k, name) == {i \in 1..Len(k.log) : k.log[i][1] = "emit" /\ k.log[i][2] = name}
Net(k, op)       == {i \in 1..Len(k.log) : k.log[i][1] = "net" /\ k.log[i][2] = op}

AllBefore(S, T) == \A i \in S : \A j \in T : i < j

(* The requests put on the wire, in the order they went, and the requests  *)
(* whose final response was matched, in the order they were.               *)
IsRequestEntry(e)  == e[1] = "net" /\ e[2] = "request"
IsResponseEntry(e) == e[1] = "net" /\ e[2] = "response"
SentRequests(k)      == [i \in 1..Len(SelectSeq(k.log, IsRequestEntry)) |->
                           SelectSeq(k.log, IsRequestEntry)[i][3]]
AnsweredRequests(k)  == [i \in 1..Len(SelectSeq(k.log, IsResponseEntry)) |->
                           SelectSeq(k.log, IsResponseEntry)[i][3]]

(* The lists handed to network.sendRequests, one after the other. *)
RECURSIVE HandedOver(_)
HandedOver(log) ==
  IF log = << >> THEN << >>
  ELSE (IF Head(log)[1] = "net" /\ Head(log)[2] = "sendRequests" THEN Head(log)[3] ELSE << >>)
       \o HandedOver(Tail(log))

TerminalOutcomes(k) ==
  Cardinality(Emitted(k, "associationReleased"))
    + Cardinality(Emitted(k, "networkError"))
    + Cardinality(Emitted(k, "associationRejected"))

-----------------------------------------------------------------------------
(* C1: every connection attempt surfaces exactly one terminal outcome      *)
(* (associationReleased, networkError or associationRejected): never two,  *)
(* and one has been surfaced as soon as the connection has reached its     *)
(* terminal state or closed was emitted.                                   *)
C1_ExactlyOneTerminalOutcome ==
  \A c \in Conns :
    LET k == conns[c] IN
      /\ TerminalOutcomes(k) <= 1
      /\ k.lifecycle \in {"Closed", "Error"} => TerminalOutcomes(k) = 1
      /\ Emitted(k, "closed") # {} => TerminalOutcomes(k) = 1
      /\ k.socket = "closed" => TerminalOutcomes(k) = 1

C1_Witness ==
  \E c \in Conns :
    /\ Emitted(conns[c], "associationReleased") # {}
    /\ Emitted(conns[c], "closed") # {}

C2_Safety ==
  \A c \in Conns :
    LET k == conns[c]
        E == Emitted(k, "networkError")
        Cl == Emitted(k, "closed")
    IN  /\ Cardinality(E) <= 1
        /\ E # {} => k.fault # "none"
        /\ k.fault # "none" =>
             /\ Cardinality(E) = 1
             /\ \A i \in E : k.log[i] = <<"emit", "networkError", k.fault>>
             /\ k.ends >= 1
             /\ k.socket \in {"ended", "closed"}
             /\ AllBefore(E, Cl)
             /\ Cardinality(Cl) <= 1
             /\ k.socket = "closed" => Cardinality(Cl) = 1
             /\ Cardinality(Net(k, "A-ASSOCIATE-RQ")) <= 1
             /\ AllBefore(Net(k, "A-ASSOCIATE-RQ") \cup Net(k, "request"), E)

FaultOn(c)  == c \in Conns /\ conns[c].fault # "none"
ClosedOn(c) == c \in Conns /\ Emitted(conns[c], "closed") # {}

(* C2: a fault on a connection is surfaced as exactly one networkError     *)
(* carrying it, the transport is ended with it, closed follows it, once,   *)
(* and nothing is sent again after it.                                     *)
C2_FaultSurfacedOnce ==
  [] C2_Safety /\ (FaultOn(TheConn) ~> ClosedOn(TheConn))

C2_Witness ==
  \E c \in Conns :
    /\ conns[c].fault = "pduTimeout"
    /\ Emitted(conns[c], "associationAccepted") # {}
    /\ Emitted(conns[c], "closed") # {}

(* C3: once the association is Established, a closure that no clean        *)
(* release preceded gives the caller exactly one closed event, with one    *)
(* networkError before it.                                                 *)
C3_UncleanCloseAfterError ==
  \A c \in Conns :
    LET k == conns[c]
        E == Emitted(k, "networkError")
        Cl == Emitted(k, "closed")
    IN  Emitted(k, "associationAccepted") # {} =>
          /\ Cardinality(Cl) <= 1
          /\ k.socket = "closed" => Cardinality(Cl) = 1
          /\ (Cl # {} \/ k.socket = "closed") /\ Emitted(k, "associationReleased") = {} =>
               /\ Cardinality(E) = 1
               /\ AllBefore(E, Cl)

C3_Witness ==
  \E c \in Conns :
    /\ Emitted(conns[c], "associationAccepted") # {}
    /\ conns[c].fault = "peerClose"
    /\ Emitted(conns[c], "closed") # {}

C4_Safety ==
  \A c \in Conns :
    LET k == conns[c]
        RJ == Net(k, "A-ASSOCIATE-RJ")
        Cl == Emitted(k, "closed")
    IN  RJ # {} =>
          /\ Cardinality(Emitted(k, "associationRejected")) = 1
          /\ \A i \in RJ : \A j \in Emitted(k, "associationRejected") :
               /\ i < j
               /\ k.log[j] = <<"emit", "associationRejected",
                               k.log[i][3][1], k.log[i][3][2], k.log[i][3][3]>>
          /\ k.ends >= 1
          /\ k.socket \in {"ended", "closed"}
          /\ Emitted(k, "associationAccepted") = {}
          /\ Net(k, "sendRequests") = {}
          /\ Net(k, "request") = {}
          /\ Cardinality(Cl) <= 1
          /\ k.socket = "closed" => Cardinality(Cl) = 1
          /\ AllBefore(Emitted(k, "associationRejected"), Cl)

RejectedOn(c) == c \in Conns /\ Net(conns[c], "A-ASSOCIATE-RJ") # {}

(* C4: a rejected association gives the caller exactly one                 *)
(* associationRejected with the peer's result, source and reason, followed *)
(* by one closed; the transport is ended, associationAccepted is never     *)
(* emitted and no request is sent.                                         *)
C4_Rejected ==
  [] C4_Safety /\ (RejectedOn(TheConn) ~> ClosedOn(TheConn))

C4_Witness ==
  \E c \in Conns :
    /\ Net(conns[c], "A-ASSOCIATE-RJ") # {}
    /\ Emitted(conns[c], "closed") # {}
    /\ requests # << >>

C5_Safety ==
  \A c \in Conns :
    LET k == conns[c]
        Rel == Emitted(k, "associationReleased")
        RQ == Net(k, "A-RELEASE-RQ")
    IN  Rel # {} =>
          /\ Cardinality(Emitted(k, "connected")) = 1
          /\ Cardinality(Emitted(k, "associationAccepted")) = 1
          /\ Cardinality(Rel) = 1
          /\ AllBefore(Emitted(k, "connected"), Emitted(k, "associationAccepted"))
          /\ AllBefore(Emitted(k, "associationAccepted"), Rel)
          /\ Cardinality(RQ) = 1
          /\ AllBefore(Emitted(k, "associationAccepted"), RQ)
          /\ AllBefore(RQ, Rel)
          /\ AllBefore(Net(k, "request") \cup Net(k, "response") \cup Net(k, "done"), RQ)
          /\ SentRequests(k) = HandedOver(k.log)
          /\ AnsweredRequests(k) = SentRequests(k)
          /\ k.ends = 1
          /\ Cardinality(Emitted(k, "closed")) <= 1
          /\ k.socket = "closed" => Cardinality(Emitted(k, "closed")) = 1
          /\ AllBefore(Rel, Emitted(k, "closed"))

ReleasedOn(c) == c \in Conns /\ Emitted(conns[c], "associationReleased") # {}

(* C5: on a connection that is released, the caller sees connected, then   *)
(* associationAccepted, then associationReleased; the release request goes *)
(* out once, after every request sent has its final response; the socket   *)
(* is ended exactly once and then closes, with one closed event.           *)
C5_CleanRelease ==
  [] C5_Safety /\ (ReleasedOn(TheConn) ~> ClosedOn(TheConn))

C5_Witness ==
  \E c \in Conns :
    /\ HandedOver(conns[c].log) = << <<"Request", 1>> >>
    /\ Emitted(conns[c], "associationReleased") # {}
    /\ Emitted(conns[c], "closed") # {}

(* C8: on every connection requests go out one at a time, in the order of  *)
(* the queue handed over, each after associationAccepted and after the     *)
(* final response of the one before, none after the release request.       *)
C8_OneAtATimeInOrder ==
  \A c \in Conns :
    LET k == conns[c]
        sent == SentRequests(k)
        answered == AnsweredRequests(k)
    IN  /\ IsPrefix(sent, HandedOver(k.log))
        /\ IsPrefix(answered, sent)
        /\ Len(sent) <= Len(answered) + 1
        /\ \A i \in Net(k, "request") :
             /\ \E a \in Emitted(k, "associationAccepted") : a < i
             /\ Cardinality({j \in Net(k, "request") : j < i})
                  = Cardinality({j \in Net(k, "response") : j < i})
        /\ AllBefore(Net(k, "request"), Net(k, "A-RELEASE-RQ"))
        /\ \A i \in Net(k, "sendRequests") : NoDuplicates(k.log[i][3])

C8_Witness ==
  \E c \in Conns :
    /\ Len(SentRequests(conns[c])) = 2
    /\ AnsweredRequests(conns[c]) = SentRequests(conns[c])
    /\ Net(conns[c], "A-RELEASE-RQ") # {}

-----------------------------------------------------------------------------
(* The claims about the client's calls are stated on the steps that are    *)
(* the call: a step of send, addRequest, addAdditionalPresentationContext  *)
(* or clearRequests.                                                       *)

(* C6: send with an empty queue throws at the call, opens no connection    *)
(* (so emits nothing, ever) and leaves the queue and the additional        *)
(* presentation contexts as they were.                                     *)
C6_SendEmptyQueue ==
  [][ ((\E option \in LingerOptions : send(option)) /\ requests = << >>) =>
        /\ thrown' = NoRequestsError
        /\ conns' = conns
        /\ requests' = requests
        /\ additionalPresentationContexts' = additionalPresentationContexts ]_vars

C6_Witness ==
  /\ thrown = NoRequestsError
  /\ requests = << >>
  /\ additionalPresentationContexts # << >>
  /\ conns # << >>

C7_NoDuplicateObjects ==
  /\ NoDuplicates(requests)
  /\ NoDuplicates(additionalPresentationContexts)
  /\ \A i \in 1..Len(requests) : IsRequest(requests[i])
  /\ \A i \in 1..Len(additionalPresentationContexts) :
       IsPresentationContext(additionalPresentationContexts[i])

C7_AddStep ==
  /\ \A o \in Objects : addRequest(o) =>
       /\ additionalPresentationContexts' = additionalPresentationContexts
       /\ IF ~IsRequest(o)
          THEN thrown' # NoError /\ requests' = requests
          ELSE /\ thrown' = NoError
               /\ IsPrefix(requests, requests')
               /\ requests' = IF Includes(requests, o) THEN requests ELSE Append(requests, o)
  /\ \A o \in Objects : addAdditionalPresentationContext(o) =>
       /\ requests' = requests
       /\ IF ~IsPresentationContext(o)
          THEN /\ thrown' # NoError
               /\ additionalPresentationContexts' = additionalPresentationContexts
          ELSE /\ thrown' = NoError
               /\ IsPrefix(additionalPresentationContexts, additionalPresentationContexts')
               /\ additionalPresentationContexts' =
                    IF Includes(additionalPresentationContexts, o)
                    THEN additionalPresentationContexts
                    ELSE Append(additionalPresentationContexts, o)
  /\ clearRequests =>
       /\ requests' = << >>
       /\ additionalPresentationContexts' = additionalPresentationContexts

(* C7: the queue and the additional-context list never hold an object      *)
(* twice; adding an object already there changes nothing, a new object     *)
(* goes to the end, and an object of the wrong class throws and leaves     *)
(* both sequences as they were.                                            *)
C7_IdentityDedup == [] C7_NoDuplicateObjects /\ [][C7_AddStep]_vars

C7_Witness ==
  /\ thrown = NotARequestError
  /\ Len(requests) = 2
  /\ Len(additionalPresentationContexts) = 2

(* What send built on its last step: the association of the connection it  *)
(* opened, and the contexts the requests alone give.                       *)
SendOpened == (\E option \in LingerOptions : send(option)) /\ Len(conns') = Len(conns) + 1
Built      == conns'[Len(conns')].association
FromRequestsOnly == AddContextsFromRequests(NewAssociation, requests)

AbstractSyntaxesOf(a) == {a[i].abstractSyntaxUid : i \in 1..Len(a)}
AdditionalAbstractSyntaxes ==
  {getAbstractSyntaxUid(additionalPresentationContexts[i]) :
     i \in 1..Len(additionalPresentationContexts)}

(* C9 as claimed: every additional context gets a context of its own, so   *)
(* the association send builds has as many contexts as the requests give   *)
(* plus the number of additional contexts.                                 *)
C9_AdditionalNeverMerged ==
  [][ SendOpened =>
        Len(Built) = Len(FromRequestsOnly) + Len(additionalPresentationContexts) ]_vars

(* C9 as amended: an additional context goes onto the first context that  *)
(* already has its abstract syntax (from a request or from an earlier      *)
(* additional context), its transfer syntaxes appended there; a new        *)
(* context (next odd id) is allocated only for an abstract syntax no       *)
(* context has yet.                                                        *)
C9_AdditionalMergedByAbstractSyntax ==
  [][ SendOpened =>
        /\ Len(Built) = Len(FromRequestsOnly)
             + Cardinality(AdditionalAbstractSyntaxes \ AbstractSyntaxesOf(FromRequestsOnly))
        /\ \A i \in 1..Len(FromRequestsOnly) :
             /\ Built[i].id = FromRequestsOnly[i].id
             /\ Built[i].abstractSyntaxUid = FromRequestsOnly[i].abstractSyntaxUid
             /\ IsPrefix(FromRequestsOnly[i].transferSyntaxUids, Built[i].transferSyntaxUids)
        /\ \A i \in 1..Len(Built) : Built[i].id = 2 * i - 1
        /\ \A i \in 1..Len(additionalPresentationContexts) :
             LET context == additionalPresentationContexts[i]
                 at == {j \in 1..Len(Built) :
                          Built[j].abstractSyntaxUid = getAbstractSyntaxUid(context)}
             IN  /\ at # {}
                 /\ \A j \in at : (\A h \in at : j <= h) =>
                      \A t \in 1..Len(getTransferSyntaxUids(context)) :
                        Includes(Built[j].transferSyntaxUids, getTransferSyntaxUids(context)[t]) ]_vars

C9_Witness ==
  \E c \in Conns :
    /\ Len(conns[c].association) = 1
    /\ conns[c].association[1].abstractSyntaxUid = CtImageStorage
    /\ Len(conns[c].association[1].transferSyntaxUids) = 4

-----------------------------------------------------------------------------
C10_IdsOddUniqueIncreasing ==
  /\ \A i \in 1..Len(assoc) : assoc[i].id % 2 = 1
  /\ \A i, j \in 1..Len(assoc) : i < j => assoc[i].id < assoc[j].id
  /\ \A i \in 1..Len(assoc) : assoc[i].id = 2 * i - 1

C10_IdsStable ==
  /\ Len(assoc') >= Len(assoc)
  /\ \A i \in 1..Len(assoc) : assoc'[i].id = assoc[i].id
  /\ returned' # Undefined => \E i \in 1..Len(assoc') : assoc'[i].id = returned'

-----------------------------------------------------------------------------
(* Reading what was fed to the association. *)
ContextWithId(id) == assoc[FindId(assoc, id)]
SameAbstractSyntaxOtherTransferSyntax(f, g) ==
  f.request.sop = g.request.sop /\ f.request.ts # g.request.ts

C12_ContextPerPair ==
  /\ \A f, g \in fed :
       (f.id = g.id) <=> (f.request.sop = g.request.sop /\ f.request.ts = g.request.ts)
  /\ Len(assoc) = Cardinality({<<f.request.sop, f.request.ts>> : f \in fed})

(* The C-STORE test: default, .4.90, .4.90, .4.70 of one SOP class. *)
C12_Witness ==
  /\ assocCalls = 4
  /\ Len(assoc) = 3
  /\ {f.request : f \in fed} =
       {[kind |-> "CStore", sop |-> CtImageStorage, ts |-> ts] :
          ts \in {ImplicitVRLittleEndian, Jpeg2000Lossless, JpegLossless}}
  /\ \A i \in 1..3 : assoc[i].abstractSyntaxUid = CtImageStorage

-----------------------------------------------------------------------------
StorageClassSet == {StorageClasses[i] : i \in 1..Len(StorageClasses)}

C13_RetrieveStep ==
  \A d \in RequestKinds :
    (d.kind = "CGet" /\ assoc = NewAssociation /\ AssocAddPresentationContextFromRequest(d)) =>
      /\ Len(assoc') = Cardinality(StorageClassSet) + 1
      /\ AbstractSyntaxesOf(assoc') = StorageClassSet \cup {d.sop}
      /\ \A i, j \in 1..Len(assoc') :
           assoc'[i].abstractSyntaxUid = assoc'[j].abstractSyntaxUid => i = j
      /\ \E i \in 1..Len(assoc') :
           assoc'[i].abstractSyntaxUid = d.sop /\ assoc'[i].id = returned'

(* C13: a C-GET request fed to an empty association gives one context per  *)
(* registered storage class plus one for the request's own model UID, no   *)
(* abstract syntax twice, and returns the id of the context of the model   *)
(* UID.                                                                    *)
C13_RetrieveOnEmpty == [][C13_RetrieveStep]_vars

C13_Witness ==
  /\ assocCalls = 1
  /\ Len(assoc) = Len(StorageClasses) + 1
  /\ assoc[Len(assoc)].abstractSyntaxUid = StudyRootGet
  /\ returned = assoc[Len(assoc)].id

-----------------------------------------------------------------------------
Allocated(id) == \E i \in 1..Len(assoc) : assoc[i].id = id

C14_GetStep ==
  \A id \in PresentationContextIds : AssocGetPresentationContext(id) =>
    /\ assoc' = assoc
    /\ IF Allocated(id)
       THEN /\ thrown' = NoError
            /\ returned' = id
            /\ \E i \in 1..Len(assoc) :
                 assoc[i].id = id /\ getPresentationContext(assoc, id) = assoc[i]
       ELSE thrown' = NotFoundError

(* C14: getPresentationContext(id) throws a not-found error for an id that *)
(* was never allocated and leaves the contexts as they were; for an        *)
(* allocated id it returns the context with that id.                       *)
C14_GetPresentationContext == [][C14_GetStep]_vars

(* The test: one allocation, one transfer syntax, then an unknown id. *)
C14_Witness ==
  /\ thrown = NotFoundError
  /\ Len(assoc) = 1
  /\ assoc[1].transferSyntaxUids # << >>

-----------------------------------------------------------------------------
C15_PendingReadsNone ==
  \A i \in 1..Len(assoc) :
    assoc[i].result = Pending => getAcceptedTransferSyntaxUid(assoc[i]) = NoAccepted

C15_SecondSetResultStep ==
  \A i \in 1..Len(assoc), result \in Results, uid \in TransferSyntaxUids :
    (assoc[i].result # Pending /\ AssocSetResult(assoc[i].id, result, uid)) =>
      thrown' = InvalidStateError /\ assoc' = assoc

(* C15: a context whose result is still Pending reads "none" as its        *)
(* accepted transfer syntax whatever was proposed on it, and a second      *)
(* setResult fails and leaves the first result and accepted transfer       *)
(* syntax as they were.                                                    *)
C15_NoneBeforeResult == [] C15_PendingReadsNone /\ [][C15_SecondSetResultStep]_vars

(* C16: a context whose result is Accepted has an accepted transfer syntax *)
(* and it is one of the transfer syntaxes proposed on the context.         *)
C16_AcceptedIsProposed ==
  \A i \in 1..Len(assoc) :
    assoc[i].result = Accepted =>
      /\ assoc[i].acceptedTransferSyntaxUid # NoAccepted
      /\ Includes(assoc[i].transferSyntaxUids, assoc[i].acceptedTransferSyntaxUid)

-----------------------------------------------------------------------------
(* C17: the linger timer armed by done never invokes                       *)
(* sendAssociationReleaseRequest on a connection that has already failed   *)
(* or closed, and no timer stays armed once the transport has closed.      *)
C17_NoReleaseAfterClose ==
  \A c \in Conns :
    LET k == conns[c]
    IN  /\ \A i \in Net(k, "A-RELEASE-RQ") : k.log[i][3] \notin {"Closed", "Error"}
        /\ k.socket = "closed" => k.lingerTimers = << >>

Terminated(c) ==
  /\ conns[c].lifecycle \in {"Closed", "Error"}
  /\ conns[c].socket = "closed"
  /\ conns[c].ends >= 1
  /\ Emitted(conns[c], "closed") # {}

(* C18: every connection attempt ends: its lifecycle reaches its terminal  *)
(* state, the socket is ended and closed, and closed is emitted.           *)
C18_Terminates == <>[] Terminated(TheConn)

(* The peer stays silent after the release request. *)
C18_Witness ==
  /\ Terminated(TheConn)
  /\ conns[TheConn].fault = "pduTimeout"
  /\ \E i \in Net(conns[TheConn], "A-RELEASE-RQ") : conns[TheConn].log[i][3] = "Established"

ProposedIn(association, request) ==
  \E i \in 1..Len(association) :
    /\ association[i].abstractSyntaxUid = Descriptor(request).sop
    /\ Includes(association[i].transferSyntaxUids, Descriptor(request).ts)

(* C19: the list handed to sendRequests is the request queue as send read  *)
(* it, and every request in it has its presentation context proposed in    *)
(* the association send built.                                             *)
C19_HandedOverIsQueueAtSend ==
  \A c \in Conns :
    LET k == conns[c]
    IN  Net(k, "sendRequests") # {} =>
          /\ HandedOver(k.log) = k.queueAtSend
          /\ \A i \in 1..Len(HandedOver(k.log)) : ProposedIn(k.association, HandedOver(k.log)[i])

(* C20: a linger timer of a connection is armed with the                   *)
(* associationLingerTimeout given to the send call that opened the         *)
(* connection (0 when unset).                                              *)
C20_LingerOfOwnSend ==
  \A c \in Conns :
    \A i \in 1..Len(conns[c].lingerTimers) : conns[c].lingerTimers[i] = LingerOf(conns[c].opts)

=============================================================================
